---- MODULE Spec2Model ----
(***************************************************************************)
(* Adafruit_HTU21DF: driver of the HTU21D-F humidity/temperature sensor.   *)
(* Model of src/Adafruit_HTU21DF.cpp: the constructor, begin(), reset(),   *)
(* readTemperature() and readHumidity(), the bus traffic each call issues, *)
(* the ownership of the Adafruit_I2CDevice transport, and the              *)
(* single-precision conversion of the raw 16-bit word.                     *)
(***************************************************************************)
EXTENDS Integers, Sequences, FiniteSets, TLC

(***************************************************************************)
(* Unbounded naturals, as little-endian sequences of base-4096 digits.     *)
(* TLC's integers are 32 bits wide; the exact product of two 24-bit        *)
(* significands is 48 bits wide.                                           *)
(***************************************************************************)
DigitBits == 12

RECURSIVE Pow2(_)
Pow2(k) == IF k = 0 THEN 1 ELSE 2 * Pow2(k - 1)

Base == Pow2(DigitBits)

RECURSIVE BitLen(_)
BitLen(n) == IF n = 0 THEN 0 ELSE 1 + BitLen(n \div 2)

RECURSIVE BigNorm(_)
BigNorm(a) ==
  IF a = <<>> THEN <<>>
  ELSE IF a[Len(a)] = 0 THEN BigNorm(SubSeq(a, 1, Len(a) - 1))
  ELSE a

RECURSIVE BigFromInt(_)
BigFromInt(n) ==
  IF n = 0 THEN <<>> ELSE <<n % Base>> \o BigFromInt(n \div Base)

RECURSIVE BigToInt(_)
BigToInt(a) ==
  IF a = <<>> THEN 0 ELSE a[1] + Base * BigToInt(Tail(a))

RECURSIVE BigAddC(_, _, _)
BigAddC(a, b, c) ==
  IF a = <<>> /\ b = <<>> THEN (IF c = 0 THEN <<>> ELSE <<c>>)
  ELSE LET x == IF a = <<>> THEN 0 ELSE a[1]
           y == IF b = <<>> THEN 0 ELSE b[1]
           s == x + y + c
       IN  <<s % Base>> \o BigAddC(IF a = <<>> THEN <<>> ELSE Tail(a),
                                   IF b = <<>> THEN <<>> ELSE Tail(b),
                                   s \div Base)

BigAdd(a, b) == BigNorm(BigAddC(a, b, 0))

\* a - b - c for a >= b + c
RECURSIVE BigSubC(_, _, _)
BigSubC(a, b, c) ==
  IF a = <<>> THEN <<>>
  ELSE LET y == IF b = <<>> THEN 0 ELSE b[1]
           d == a[1] - y - c
       IN  <<(d + Base) % Base>> \o BigSubC(Tail(a),
                                            IF b = <<>> THEN <<>> ELSE Tail(b),
                                            IF d < 0 THEN 1 ELSE 0)

BigSub(a, b) == BigNorm(BigSubC(a, b, 0))

\* a * d + c for one digit d
RECURSIVE BigMulDigit(_, _, _)
BigMulDigit(a, d, c) ==
  IF a = <<>> THEN (IF c = 0 THEN <<>> ELSE <<c>>)
  ELSE LET p == a[1] * d + c
       IN  <<p % Base>> \o BigMulDigit(Tail(a), d, p \div Base)

RECURSIVE BigMul(_, _)
BigMul(a, b) ==
  IF b = <<>> THEN <<>>
  ELSE BigAdd(BigNorm(BigMulDigit(a, b[1], 0)),
              IF BigMul(a, Tail(b)) = <<>> THEN <<>>
              ELSE <<0>> \o BigMul(a, Tail(b)))

RECURSIVE Zeros(_)
Zeros(n) == IF n = 0 THEN <<>> ELSE <<0>> \o Zeros(n - 1)

BigShl(a, k) ==
  IF a = <<>> THEN <<>>
  ELSE Zeros(k \div DigitBits)
         \o BigNorm(BigMulDigit(a, Pow2(k % DigitBits), 0))

BigBitLen(a) ==
  IF a = <<>> THEN 0 ELSE DigitBits * (Len(a) - 1) + BitLen(a[Len(a)])

\* bit i of a, bit 0 the least significant
BigBit(a, i) ==
  IF i \div DigitBits + 1 > Len(a) THEN 0
  ELSE (a[i \div DigitBits + 1] \div Pow2(i % DigitBits)) % 2

\* are the k low bits of a all zero
BigLowZero(a, k) == \A i \in 0..(k - 1) : BigBit(a, i) = 0

\* a \div 2^k
BigShr(a, k) ==
  LET q == k \div DigitBits
      r == k % DigitBits
      n == Len(a) - q
      dig(j) == IF j > Len(a) THEN 0 ELSE a[j]
  IN  IF n <= 0 THEN <<>>
      ELSE BigNorm([j \in 1..n |->
             (dig(j + q) \div Pow2(r))
               + (dig(j + q + 1) % Pow2(r)) * Pow2(DigitBits - r)])

\* -1, 0, 1 as a < b, a = b, a > b (both normalised)
RECURSIVE BigCmp(_, _)
BigCmp(a, b) ==
  IF Len(a) # Len(b) THEN (IF Len(a) < Len(b) THEN -1 ELSE 1)
  ELSE IF a = <<>> THEN 0
  ELSE IF a[Len(a)] # b[Len(b)]
         THEN (IF a[Len(a)] < b[Len(b)] THEN -1 ELSE 1)
  ELSE BigCmp(SubSeq(a, 1, Len(a) - 1), SubSeq(b, 1, Len(b) - 1))

(***************************************************************************)
(* IEEE-754 binary32 (the C type float), round to nearest, ties to even.   *)
(* A finite value is (-1)^sign * man * 2^exp, man = 0 or                   *)
(* 2^23 <= man < 2^24; NAN is the quiet not-a-number.  The exponent range  *)
(* is not modelled: every value of the driver lies within                  *)
(* 2^-20 .. 2^24 in magnitude, far from overflow and from the subnormals.  *)
(***************************************************************************)
ManBits == 24

NAN == [cls |-> "nan", sign |-> 0, man |-> 0, exp |-> 0]

F32Zero(s) == [cls |-> "num", sign |-> s, man |-> 0, exp |-> 0]

\* the float nearest to (-1)^s * big * 2^e
F32Round(s, big, e) ==
  LET len == BigBitLen(big)
  IN  IF len = 0 THEN F32Zero(s)
      ELSE IF len <= ManBits
        THEN [cls |-> "num", sign |-> s,
              man |-> BigToInt(big) * Pow2(ManBits - len),
              exp |-> e - (ManBits - len)]
      ELSE LET d      == len - ManBits
               q      == BigToInt(BigShr(big, d))
               half   == BigBit(big, d - 1) = 1
               sticky == ~BigLowZero(big, d - 1)
               up     == half /\ (sticky \/ q % 2 = 1)
               q1     == IF up THEN q + 1 ELSE q
           IN  IF q1 = Pow2(ManBits)
                 THEN [cls |-> "num", sign |-> s,
                       man |-> Pow2(ManBits - 1), exp |-> e + d + 1]
                 ELSE [cls |-> "num", sign |-> s, man |-> q1, exp |-> e + d]

\* float temp = t;  (uint16_t to float: exact)
F32FromU16(t) == F32Round(0, BigFromInt(t), 0)

F32Neg(x) == IF x.cls = "nan" THEN x ELSE [x EXCEPT !.sign = 1 - x.sign]

F32Mul(x, y) ==
  IF x.cls = "nan" \/ y.cls = "nan" THEN NAN
  ELSE F32Round((x.sign + y.sign) % 2,
                BigMul(BigFromInt(x.man), BigFromInt(y.man)),
                x.exp + y.exp)

F32IsPow2(y) == y.cls = "num" /\ y.man = Pow2(ManBits - 1)

\* x / y for y a power of two: exact, the significand is unchanged.
\* (The only divisor of the driver is 65536.0f.)
F32Div(x, y) ==
  IF x.cls = "nan" \/ y.cls = "nan" THEN NAN
  ELSE IF x.man = 0 THEN F32Zero((x.sign + y.sign) % 2)
  ELSE CASE F32IsPow2(y) ->
         [cls |-> "num", sign |-> (x.sign + y.sign) % 2, man |-> x.man,
          exp |-> x.exp - y.exp - (ManBits - 1)]

F32Add(x, y) ==
  IF x.cls = "nan" \/ y.cls = "nan" THEN NAN
  ELSE IF x.man = 0 /\ y.man = 0
    THEN F32Zero(IF x.sign = 1 /\ y.sign = 1 THEN 1 ELSE 0)
  ELSE IF x.man = 0 THEN y
  ELSE IF y.man = 0 THEN x
  ELSE LET e  == IF x.exp < y.exp THEN x.exp ELSE y.exp
           bx == BigShl(BigFromInt(x.man), x.exp - e)
           by == BigShl(BigFromInt(y.man), y.exp - e)
           c  == BigCmp(bx, by)
       IN  IF x.sign = y.sign THEN F32Round(x.sign, BigAdd(bx, by), e)
           ELSE IF c = 0 THEN F32Zero(0)
           ELSE IF c > 0 THEN F32Round(x.sign, BigSub(bx, by), e)
           ELSE F32Round(y.sign, BigSub(by, bx), e)

F32Sub(x, y) == F32Add(x, F32Neg(y))

(***************************************************************************)
(* The float literals of the conversions, by their binary32 encodings:     *)
(* the float nearest to the decimal written in the source.                 *)
(***************************************************************************)
\* 175.72f = 11515986 * 2^-16
F32_175_72 == [cls |-> "num", sign |-> 0, man |-> 11515986, exp |-> -16]
\* 65536.0f = 2^23 * 2^-7
F32_65536 == [cls |-> "num", sign |-> 0, man |-> 8388608, exp |-> -7]
\* 46.85f = 12281446 * 2^-18
F32_46_85 == [cls |-> "num", sign |-> 0, man |-> 12281446, exp |-> -18]
\* 125.0f = 16384000 * 2^-17
F32_125 == [cls |-> "num", sign |-> 0, man |-> 16384000, exp |-> -17]
\* 6.0f = 12582912 * 2^-21
F32_6 == [cls |-> "num", sign |-> 0, man |-> 12582912, exp |-> -21]

\* the conversion without its division by 65536.0f
ConvTemp_Mut(t) == F32Sub(F32Mul(F32FromU16(t), F32_175_72), F32_46_85)

\* readTemperature: float temp = t; temp *= 175.72f; temp /= 65536.0f;
\* temp -= 46.85f;
ConvTemp(t) ==
  F32Sub(F32Div(F32Mul(F32FromU16(t), F32_175_72), F32_65536), F32_46_85)

\* readHumidity: float hum = h; hum *= 125.0f; hum /= 65536.0f; hum -= 6.0f;
ConvHum(h) ==
  F32Sub(F32Div(F32Mul(F32FromU16(h), F32_125), F32_65536), F32_6)

(***************************************************************************)
(* Bit operations on unsigned integers.                                    *)
(***************************************************************************)
RECURSIVE BitAnd(_, _)
BitAnd(a, b) ==
  IF a = 0 \/ b = 0 THEN 0
  ELSE (a % 2) * (b % 2) + 2 * BitAnd(a \div 2, b \div 2)

RECURSIVE BitOr(_, _)
BitOr(a, b) ==
  IF a = 0 THEN b
  ELSE IF b = 0 THEN a
  ELSE (IF a % 2 = 1 \/ b % 2 = 1 THEN 1 ELSE 0)
         + 2 * BitOr(a \div 2, b \div 2)

\* x <<= k on a uint16_t
Shl16(x, k) == (x * Pow2(k)) % Pow2(16)

(***************************************************************************)
(* Bounds of the model.                                                    *)
(***************************************************************************)
\* how many times begin() is called, i.e. how many transports are created
MaxBegins == 3

\* the bytes the device may answer to the 3-byte read
Buf0 == {0, 99, 255}
Buf1 == {0, 3, 146, 255}
Buf2 == {0, 255}
Bufs == {<<b0, b1, b2>> : b0 \in Buf0, b1 \in Buf1, b2 \in Buf2}

\* the bytes the device may answer to the status register read
StatusVals == {0, 2, 3, 255}

\* the TwoWire buses begin() may be given
Wires == {"Wire", "Wire1"}

(***************************************************************************)
(* The driver.                                                             *)
(***************************************************************************)
\* the null pointer
NULL == 0

\* command and register bytes, by name (their values are set in the header)
HTU21DF_RESET == "HTU21DF_RESET"
HTU21DF_READTEMP == "HTU21DF_READTEMP"
HTU21DF_READHUM == "HTU21DF_READHUM"
HTU21DF_READREG == "HTU21DF_READREG"

VARIABLES
  i2c_dev,        \* Adafruit_I2CDevice *i2c_dev: NULL or the transport's id
  last_temp,      \* float _last_temp
  last_humidity,  \* float _last_humidity
  live,           \* the transports allocated (new) and not yet deleted
  freed,          \* per transport, how many times it was deleted
  nextDev,        \* the id the next new Adafruit_I2CDevice gets
  wire,           \* the TwoWire bus the current transport was built on
  peakLive,       \* the most transports alive at once during the last begin()
  op,             \* the call made last
  ret,            \* what it returned
  bus,            \* the bus and timing events it issued, in order
  raw,            \* the 16-bit word it decoded (t or h), -1 when it decoded none
  halted,         \* the program crashed (an outcome of undefined behaviour)
  initState,      \* history: "never", or the result of the last begin()
  goodTemp,       \* history: the last value readTemperature() returned
  goodHum         \* history: the last value readHumidity() returned

vars == <<i2c_dev, last_temp, last_humidity, live, freed, nextDev, wire,
          peakLive, op, ret, bus, raw, halted, initState, goodTemp, goodHum>>

driver == <<i2c_dev, live, freed, nextDev, wire, peakLive>>
cache == <<last_temp, last_humidity>>
history == <<initState, goodTemp, goodHum>>

RetVoid == [type |-> "void", b |-> FALSE, f |-> NAN]
RetBool(v) == [type |-> "bool", b |-> v, f |-> NAN]
RetFloat(x) == [type |-> "float", b |-> FALSE, f |-> x]

\* events on the transport and the timing collaborator
EvBegin(dev, ok) ==
  [ev |-> "begin", dev |-> dev, cmd |-> "", n |-> 0, ok |-> ok, data |-> <<>>]
EvWrite(dev, cmd, ok) ==
  [ev |-> "write", dev |-> dev, cmd |-> cmd, n |-> 1, ok |-> ok, data |-> <<>>]
EvDelay(ms) ==
  [ev |-> "delay", dev |-> NULL, cmd |-> "", n |-> ms, ok |-> TRUE,
   data |-> <<>>]
EvRead(dev, len, ok, buf) ==
  [ev |-> "read", dev |-> dev, cmd |-> "", n |-> len, ok |-> ok,
   data |-> IF ok THEN buf ELSE <<>>]
EvRegRead(dev, reg, ok, val) ==
  [ev |-> "regread", dev |-> dev, cmd |-> reg, n |-> 1, ok |-> ok,
   data |-> IF ok THEN <<val>> ELSE <<>>]

\* the header's default member initializer of i2c_dev
I2cDevDefault == NULL

\* Adafruit_HTU21DF::Adafruit_HTU21DF()
Init ==
  /\ i2c_dev = I2cDevDefault
  /\ last_humidity = F32Zero(0)
  /\ last_temp = F32Zero(0)
  /\ live = {}
  /\ freed = [d \in 1..MaxBegins |-> 0]
  /\ nextDev = 1
  /\ wire = ""
  /\ peakLive = 0
  /\ op = "ctor"
  /\ ret = RetVoid
  /\ bus = <<>>
  /\ raw = -1
  /\ halted = FALSE
  /\ initState = "never"
  /\ goodTemp = F32Zero(0)
  /\ goodHum = F32Zero(0)

Max(a, b) == IF a > b THEN a ELSE b

\* the new transport replaces the old one, which is never deleted
NewDevice_Mut(theWire) ==
  /\ freed' = freed
  /\ live' = live \cup {nextDev}
  /\ peakLive' = Cardinality(live \cup {nextDev})
  /\ i2c_dev' = nextDev
  /\ nextDev' = nextDev + 1
  /\ wire' = theWire

\* begin(), lines 46-49: if (i2c_dev) { delete i2c_dev; }
\*                       i2c_dev = new Adafruit_I2CDevice(HTU21DF_I2CADDR, theWire);
NewDevice(theWire) ==
  LET old   == i2c_dev
      live1 == IF old # NULL THEN live \ {old} ELSE live
      live2 == live1 \cup {nextDev}
  IN  /\ freed' = IF old # NULL THEN [freed EXCEPT ![old] = @ + 1] ELSE freed
      /\ live' = live2
      /\ peakLive' = Max(Cardinality(live),
                         Max(Cardinality(live1), Cardinality(live2)))
      /\ i2c_dev' = nextDev
      /\ nextDev' = nextDev + 1
      /\ wire' = theWire

\* reset(): i2c_dev->write(&cmd, 1) with its result dropped; delay(15);
ResetEvents(dev, wok) == <<EvWrite(dev, HTU21DF_RESET, wok), EvDelay(15)>>

\* Adafruit_BusIO_Register::read(): the one-byte register's value, or
\* (uint32_t)-1 when the bus transfer fails (written -1 here)
RegValue(rok, val) == IF rok THEN val ELSE -1

\* a truth test in place of the comparison with 0x2
StatusCheck_Mut(v) == v # 0

\* begin(), line 60: reg.read() == 0x2
StatusCheck(v) == v = 2

\* a begin() that gives the transport up when it cannot open
BeginOpenFail_Mut(theWire) ==
  /\ freed' = [d \in DOMAIN freed |->
                 IF d = i2c_dev \/ d = nextDev THEN freed[d] + 1 ELSE freed[d]]
  /\ live' = {}
  /\ peakLive' = 1
  /\ i2c_dev' = NULL
  /\ nextDev' = nextDev + 1
  /\ wire' = theWire
  /\ bus' = <<EvBegin(nextDev, FALSE)>>
  /\ ret' = RetBool(FALSE)
  /\ op' = "begin"
  /\ raw' = -1
  /\ UNCHANGED <<cache, halted>>

\* begin(), lines 46-53: i2c_dev->begin() fails
BeginOpenFail(theWire) ==
  /\ NewDevice(theWire)
  /\ bus' = <<EvBegin(nextDev, FALSE)>>
  /\ ret' = RetBool(FALSE)
  /\ op' = "begin"
  /\ raw' = -1
  /\ UNCHANGED <<cache, halted>>

\* a begin() that checks the reset write and gives up when it failed
BeginOpened_Mut(theWire, wok, rok, val) ==
  /\ NewDevice(theWire)
  /\ bus' = IF wok
              THEN <<EvBegin(nextDev, TRUE)>> \o ResetEvents(nextDev, wok)
                     \o <<EvRegRead(nextDev, HTU21DF_READREG, rok, val)>>
              ELSE <<EvBegin(nextDev, TRUE),
                     EvWrite(nextDev, HTU21DF_RESET, FALSE)>>
  /\ ret' = RetBool(wok /\ StatusCheck(RegValue(rok, val)))
  /\ op' = "begin"
  /\ raw' = -1
  /\ UNCHANGED <<cache, halted>>

\* begin(), lines 46-60: i2c_dev->begin() succeeds
BeginOpened(theWire, wok, rok, val) ==
  /\ NewDevice(theWire)
  /\ bus' = <<EvBegin(nextDev, TRUE)>> \o ResetEvents(nextDev, wok)
              \o <<EvRegRead(nextDev, HTU21DF_READREG, rok, val)>>
  /\ ret' = RetBool(StatusCheck(RegValue(rok, val)))
  /\ op' = "begin"
  /\ raw' = -1
  /\ UNCHANGED <<cache, halted>>

\* reset(), lines 66-71
ResetCall(wok) ==
  /\ bus' = ResetEvents(i2c_dev, wok)
  /\ ret' = RetVoid
  /\ op' = "reset"
  /\ raw' = -1
  /\ UNCHANGED <<driver, cache, halted>>

\* the low byte taken whole, its two status bits included
Decode_Mut(buf) == BitOr(Shl16(buf[1], 8), buf[2])

\* lines 94-96 and 133-135: uint16_t t = buf[0]; t <<= 8;
\* t |= buf[1] & 0b11111100;   (buf[0] of the source is buf[1] here)
Decode(buf) == BitOr(Shl16(buf[1], 8), BitAnd(buf[2], 252))

\* the words the bounded answers decode to, and their conversions
Raws == {Decode(buf) : buf \in Bufs}
TempOf == [t \in Raws |-> ConvTemp(t)]
HumOf == [h \in Raws |-> ConvHum(h)]

\* a failed command write that does not return: the wait and the read follow
ReadTempWriteFail_Mut ==
  /\ bus' = <<EvWrite(i2c_dev, HTU21DF_READTEMP, FALSE), EvDelay(50),
              EvRead(i2c_dev, 3, FALSE, <<>>)>>
  /\ ret' = RetFloat(NAN)
  /\ op' = "readTemperature"
  /\ raw' = -1
  /\ UNCHANGED <<driver, cache, halted>>

\* readTemperature(), lines 81-84: the command write fails
ReadTempWriteFail ==
  /\ bus' = <<EvWrite(i2c_dev, HTU21DF_READTEMP, FALSE)>>
  /\ ret' = RetFloat(NAN)
  /\ op' = "readTemperature"
  /\ raw' = -1
  /\ UNCHANGED <<driver, cache, halted>>

\* readTemperature(), lines 81-91: the 3-byte read fails
ReadTempReadFail ==
  /\ bus' = <<EvWrite(i2c_dev, HTU21DF_READTEMP, TRUE), EvDelay(50),
              EvRead(i2c_dev, 3, FALSE, <<>>)>>
  /\ ret' = RetFloat(NAN)
  /\ op' = "readTemperature"
  /\ raw' = -1
  /\ UNCHANGED <<driver, cache, halted>>

\* readTemperature(), lines 81-108: write and read succeed
ReadTempOk(buf) ==
  LET t == Decode(buf)
  IN  /\ bus' = <<EvWrite(i2c_dev, HTU21DF_READTEMP, TRUE), EvDelay(50),
                  EvRead(i2c_dev, 3, TRUE, buf)>>
      /\ last_temp' = TempOf[t]
      /\ ret' = RetFloat(TempOf[t])
      /\ op' = "readTemperature"
      /\ raw' = t
      /\ UNCHANGED <<driver, last_humidity, halted>>

\* readHumidity(), lines 119-122: the command write fails
ReadHumWriteFail ==
  /\ bus' = <<EvWrite(i2c_dev, HTU21DF_READHUM, FALSE)>>
  /\ ret' = RetFloat(NAN)
  /\ op' = "readHumidity"
  /\ raw' = -1
  /\ UNCHANGED <<driver, cache, halted>>

\* a failed read whose not-a-number is cached
ReadHumReadFail_Mut ==
  /\ bus' = <<EvWrite(i2c_dev, HTU21DF_READHUM, TRUE), EvDelay(50),
              EvRead(i2c_dev, 3, FALSE, <<>>)>>
  /\ ret' = RetFloat(NAN)
  /\ last_humidity' = NAN
  /\ op' = "readHumidity"
  /\ raw' = -1
  /\ UNCHANGED <<driver, last_temp, halted>>

\* readHumidity(), lines 119-130: the 3-byte read fails
ReadHumReadFail ==
  /\ bus' = <<EvWrite(i2c_dev, HTU21DF_READHUM, TRUE), EvDelay(50),
              EvRead(i2c_dev, 3, FALSE, <<>>)>>
  /\ ret' = RetFloat(NAN)
  /\ op' = "readHumidity"
  /\ raw' = -1
  /\ UNCHANGED <<driver, cache, halted>>

\* a readHumidity() that tracks its value in _last_temp as well
ReadHumOk_Mut(buf) ==
  LET h == Decode(buf)
  IN  /\ bus' = <<EvWrite(i2c_dev, HTU21DF_READHUM, TRUE), EvDelay(50),
                  EvRead(i2c_dev, 3, TRUE, buf)>>
      /\ last_humidity' = HumOf[h]
      /\ last_temp' = HumOf[h]
      /\ ret' = RetFloat(HumOf[h])
      /\ op' = "readHumidity"
      /\ raw' = h
      /\ UNCHANGED <<driver, halted>>

\* readHumidity(), lines 119-147: write and read succeed
ReadHumOk(buf) ==
  LET h == Decode(buf)
  IN  /\ bus' = <<EvWrite(i2c_dev, HTU21DF_READHUM, TRUE), EvDelay(50),
                  EvRead(i2c_dev, 3, TRUE, buf)>>
      /\ last_humidity' = HumOf[h]
      /\ ret' = RetFloat(HumOf[h])
      /\ op' = "readHumidity"
      /\ raw' = h
      /\ UNCHANGED <<driver, last_temp, halted>>

(***************************************************************************)
(* reset(), readTemperature() and readHumidity() call i2c_dev->write       *)
(* without testing i2c_dev.  On a null i2c_dev that is undefined           *)
(* behaviour: the program either crashes (NullDerefCrash), or the call     *)
(* runs on with whatever the access through the null pointer yields, which *)
(* the actions above give as events whose dev is NULL and whose results    *)
(* are arbitrary.                                                          *)
(***************************************************************************)
NullDerefCrash(name) ==
  /\ i2c_dev = NULL
  /\ halted' = TRUE
  /\ op' = name
  /\ ret' = RetVoid
  /\ bus' = <<>>
  /\ raw' = -1
  /\ UNCHANGED <<driver, cache>>

\* history variables, from what the call returned
Observe ==
  /\ initState' = IF op' = "begin"
                    THEN (IF ret'.b THEN "ok" ELSE "failed")
                    ELSE initState
  /\ goodTemp' = IF op' = "readTemperature" /\ ret'.type = "float"
                      /\ ret'.f # NAN
                   THEN ret'.f ELSE goodTemp
  /\ goodHum' = IF op' = "readHumidity" /\ ret'.type = "float"
                     /\ ret'.f # NAN
                  THEN ret'.f ELSE goodHum

Begin ==
  /\ ~halted
  /\ nextDev <= MaxBegins
  /\ \E theWire \in Wires :
       \/ BeginOpenFail(theWire)
       \/ \E wok \in BOOLEAN : \E val \in StatusVals :
            BeginOpened(theWire, wok, TRUE, val)
       \/ \E wok \in BOOLEAN : BeginOpened(theWire, wok, FALSE, 0)
  /\ Observe

Reset ==
  /\ ~halted
  /\ \E wok \in BOOLEAN : ResetCall(wok)
  /\ Observe

ReadTemperature ==
  /\ ~halted
  /\ \/ ReadTempWriteFail
     \/ ReadTempReadFail
     \/ \E buf \in Bufs : ReadTempOk(buf)
  /\ Observe

ReadHumidity ==
  /\ ~halted
  /\ \/ ReadHumWriteFail
     \/ ReadHumReadFail
     \/ \E buf \in Bufs : ReadHumOk(buf)
  /\ Observe

Crash ==
  /\ ~halted
  /\ \E name \in {"reset", "readTemperature", "readHumidity"} :
       NullDerefCrash(name)
  /\ Observe

Next == Begin \/ Reset \/ ReadTemperature \/ ReadHumidity \/ Crash

Spec == Init /\ [][Next]_vars

(***************************************************************************)
(* The claims.                                                             *)
(***************************************************************************)
Reads == {"readTemperature", "readHumidity"}

CmdOf(name) ==
  IF name = "readTemperature" THEN HTU21DF_READTEMP ELSE HTU21DF_READHUM

\* the last call was a measurement whose command write failed
WriteFailed(b) == Len(b) >= 1 /\ b[1].ev = "write" /\ ~b[1].ok

\* the last call was a measurement whose write succeeded and whose read failed
ReadFailedAfterWrite(b) ==
  /\ Len(b) = 3
  /\ b[1].ev = "write" /\ b[1].ok
  /\ b[3].ev = "read" /\ ~b[3].ok

\* the last call was a measurement that read its three bytes
ReadSucceeded(b) == Len(b) = 3 /\ b[3].ev = "read" /\ b[3].ok

\* C1: begin() returns true if and only if the transport opened and the
\* one-byte status register read after the reset succeeded and gave exactly
\* 0x02; a failed open, a failed status read and every other status value
\* give false.
C1_BeginTrueIffStatus02 ==
  op = "begin" =>
    /\ ret.type = "bool"
    /\ ret.b <=> /\ bus[1].ev = "begin" /\ bus[1].ok
                 /\ Len(bus) = 4
                 /\ bus[4].ev = "regread" /\ bus[4].ok
                 /\ bus[4].data = <<2>>

\* a begin() that returned true
C1_Witness ==
  op = "begin" /\ ret.b /\ Len(bus) = 4 /\ bus[4].data = <<2>>

\* C2: a readTemperature() or readHumidity() call whose command write
\* fails, or whose write succeeds and whose 3-byte read fails, returns
\* not-a-number and leaves both cached readings as they were before it.
C2_FailedReadKeepsCache ==
  [][(op' \in Reads /\ (WriteFailed(bus') \/ ReadFailedAfterWrite(bus')))
       => /\ ret'.type = "float" /\ ret'.f = NAN
          /\ last_temp' = last_temp
          /\ last_humidity' = last_humidity]_vars

\* a measurement failed at its read while both caches held measured values
C2_Witness ==
  /\ op = "readHumidity"
  /\ ReadFailedAfterWrite(bus)
  /\ ret.f = NAN
  /\ last_temp # F32Zero(0)
  /\ last_humidity # F32Zero(0)

\* C3: after any sequence of calls the cached temperature is the value the
\* most recent successful readTemperature() returned, or zero if there was
\* none, and the cached humidity is that of the most recent successful
\* readHumidity(), or zero.
C3_CacheIsLastSuccess ==
  /\ last_temp = goodTemp
  /\ last_humidity = goodHum

\* both readings were measured, later calls failed, and begin() was called
C3_Witness ==
  /\ op = "begin"
  /\ last_temp # F32Zero(0)
  /\ last_humidity # F32Zero(0)
  /\ last_temp # last_humidity

\* C4: a second begin() deletes the first transport before it creates the
\* new one: at most one transport is alive at any point, none is deleted
\* twice, every transport created is either the one the driver owns or was
\* deleted once, and the bus traffic of every call is served by the
\* transport the latest begin() created.
C4_OneTransportLatestServes ==
  /\ Cardinality(live) <= 1
  /\ peakLive <= 1
  /\ \A d \in DOMAIN freed : freed[d] <= 1
  /\ live = IF i2c_dev = NULL THEN {} ELSE {i2c_dev}
  /\ \A d \in 1..(nextDev - 1) : (d \in live) # (freed[d] = 1)
  /\ initState # "never" =>
       /\ i2c_dev = nextDev - 1
       /\ \A i \in DOMAIN bus :
            bus[i].ev # "delay" => bus[i].dev = nextDev - 1

\* a measurement after the second begin(), served by the second transport
C4_Witness ==
  /\ nextDev = 3
  /\ freed[1] = 1
  /\ op = "readTemperature"
  /\ ReadSucceeded(bus)
  /\ bus[3].dev = 2

\* C5 as claimed: after begin() returned false every measurement call
\* returns not-a-number.
C5_FailedBeginReadsFail ==
  (initState = "failed" /\ op \in Reads) => ret.f = NAN

\* C5 as amended: after begin() returned false the driver still owns the
\* transport that call created, alive; a measurement call runs the protocol
\* on it and returns not-a-number exactly when its command write or its
\* 3-byte read fails, and otherwise returns and caches the decoded value.
C5_FailedBeginKeepsTransport ==
  initState = "failed" =>
    /\ i2c_dev # NULL
    /\ i2c_dev \in live
    /\ op \in Reads =>
         /\ bus # <<>>
         /\ \A i \in DOMAIN bus :
              bus[i].ev # "delay" => bus[i].dev = i2c_dev
         /\ ret.f = NAN <=> (WriteFailed(bus) \/ ReadFailedAfterWrite(bus))
         /\ ReadSucceeded(bus) =>
              ret.f = (IF op = "readTemperature" THEN last_temp
                                                 ELSE last_humidity)

\* a measurement that succeeded after begin() had returned false
C5_Witness ==
  /\ initState = "failed"
  /\ op = "readTemperature"
  /\ ReadSucceeded(bus)
  /\ ret.f # NAN

\* C6 as claimed: on a driver on which begin() was never called the
\* transport is absent and a measurement call returns not-a-number with no
\* bus traffic and no cache change.
C6_FreshDriverReadFailsCleanly ==
  initState = "never" =>
    /\ i2c_dev = NULL
    /\ op \in Reads =>
         /\ ~halted
         /\ ret = RetFloat(NAN)
         /\ bus = <<>>
         /\ last_temp = F32Zero(0)
         /\ last_humidity = F32Zero(0)

\* the low byte with its two low bits cleared, by arithmetic
Masked(b) == b - (b % 4)

\* the word b0 * 256 + (b1 with its two low bits cleared)
Word(buf) == buf[1] * 256 + Masked(buf[2])

\* the value a successful call named name returns for the bytes buf
ResultOf(name, buf) ==
  IF name = "readTemperature" THEN TempOf[Decode(buf)] ELSE HumOf[Decode(buf)]

\* C7: for the bytes b0, b1, b2 of a successful 3-byte read the word decoded
\* is b0 * 256 + (b1 with its two low bits cleared), a multiple of 4 within
\* 0..0xFFFC, and the value returned is the one returned for b0, b1 with its
\* low bits cleared, and any third byte.
C7_LowBitsAndChecksumIgnored ==
  (op \in Reads /\ ReadSucceeded(bus)) =>
    LET buf == bus[3].data
    IN  /\ raw = Word(buf)
        /\ raw \in 0..65532
        /\ raw % 4 = 0
        /\ ret.type = "float" /\ ret.f # NAN
        /\ \A b2 \in 0..255 :
             ret.f = ResultOf(op, <<buf[1], Masked(buf[2]), b2>>)

\* a successful read whose low byte had a status bit set and whose
\* checksum byte was not zero
C7_Witness ==
  /\ op = "readTemperature"
  /\ ReadSucceeded(bus)
  /\ bus[3].data[2] % 4 # 0
  /\ bus[3].data[3] = 255
  /\ raw = 25488

\* the transfer functions as the spec writes them, (raw / 65536.0) * k - c,
\* each operation in binary32
SpecTemp(r) ==
  F32Sub(F32Mul(F32Div(F32FromU16(r), F32_65536), F32_175_72), F32_46_85)
SpecHum(r) ==
  F32Sub(F32Mul(F32Div(F32FromU16(r), F32_65536), F32_125), F32_6)

Words == {Word(buf) : buf \in Bufs}
SpecTempOf == [r \in Words |-> SpecTemp(r)]
SpecHumOf == [r \in Words |-> SpecHum(r)]

\* the literals are the floats nearest to the decimals: in units of
\* 1/100 ulp the distance is at most half an ulp
LiteralsNearest ==
  /\ ((100 * F32_175_72.man) - (17572 * Pow2(16))) \in (-50)..50
  /\ ((100 * F32_46_85.man) - (4685 * Pow2(18))) \in (-50)..50
  /\ F32_125.man = 125 * Pow2(17)
  /\ F32_6.man = 6 * Pow2(21)
  /\ F32_65536.man = Pow2(16) * Pow2(7)

C9_OneWriteWaitOneRead ==
  (op \in Reads /\ initState # "never") =>
    /\ ret.type = "float"
    /\ Len(bus) \in {1, 3}
    /\ bus[1].ev = "write" /\ bus[1].cmd = CmdOf(op) /\ bus[1].n = 1
    /\ Len(bus) = 1 <=> ~bus[1].ok
    /\ Len(bus) = 3 =>
         /\ bus[2] = EvDelay(50)
         /\ bus[3].ev = "read" /\ bus[3].n = 3
         /\ bus[3].dev = bus[1].dev

\* a readTemperature() whose command write failed
C9_Witness ==
  /\ op = "readTemperature"
  /\ initState = "ok"
  /\ WriteFailed(bus)
  /\ Len(bus) = 1

\* C10: a begin() whose transport opens issues the reset command write, a
\* 15 ms wait and the one-byte status register read, in this order, whether
\* or not the reset write succeeded, and returns what the status read alone
\* decides; a begin() whose transport does not open issues none of them and
\* returns false.
C10_BeginSequence ==
  op = "begin" =>
    /\ bus[1].ev = "begin" /\ bus[1].dev = i2c_dev
    /\ ~bus[1].ok => (Len(bus) = 1 /\ ret = RetBool(FALSE))
    /\ bus[1].ok =>
         /\ Len(bus) = 4
         /\ bus[2].ev = "write" /\ bus[2].cmd = HTU21DF_RESET
         /\ bus[3] = EvDelay(15)
         /\ bus[4].ev = "regread" /\ bus[4].cmd = HTU21DF_READREG
         /\ bus[4].n = 1
         /\ ret = RetBool(bus[4].ok /\ bus[4].data = <<2>>)

\* a begin() that returned true although its reset write failed
C10_Witness ==
  /\ op = "begin"
  /\ Len(bus) = 4
  /\ ~bus[2].ok
  /\ ret.b

====
